---- MODULE Spec2Model ----
(***************************************************************************)
(* A model of the MCP-Gemini PR agent (src/mcp_gemini_client.py): the      *)
(* client object, its connection scope, the three workflows and the        *)
(* interactive shell.                                                      *)
(*                                                                         *)
(* Texts are sequences of tokens.  A token is a whitespace character, a    *)
(* JSON punctuation mark, a JSON string literal (written with its quotes), *)
(* or a whitespace-free word.  Operations on texts (strip, lower,          *)
(* json.loads, concatenation in f-strings) work on the tokens.             *)
(***************************************************************************)
EXTENDS Integers, Sequences, FiniteSets, TLC

(***************************************************************************)
(* Bounds of the model.                                                    *)
(***************************************************************************)
\* content blocks a tool response may carry
MaxBlocks == 2
\* whitespace characters padded on each side of an input line
MaxPad == 1

(***************************************************************************)
(* str.strip() and str.lower()                                             *)
(***************************************************************************)
Whitespace == {" ", "\n", "\t"}

RECURSIVE LStrip(_)
LStrip(s) ==
    IF s = <<>> THEN <<>>
    ELSE IF Head(s) \in Whitespace THEN LStrip(Tail(s)) ELSE s

RECURSIVE RStrip(_)
RStrip(s) ==
    IF s = <<>> THEN <<>>
    ELSE IF s[Len(s)] \in Whitespace THEN RStrip(SubSeq(s, 1, Len(s) - 1)) ELSE s

StripLeftOnly(s) == LStrip(s)

Strip(s) == RStrip(LStrip(s))

\* the cased words of the model and their lower-case forms; every other
\* token has no cased character
LowerTok(t) ==
    CASE t = "ANALYZE" -> "analyze"
      [] t = "Analyze" -> "analyze"
      [] t = "CI-STATUS" -> "ci-status"
      [] t = "SLACK-ALERT" -> "slack-alert"
      [] t = "TOOLS" -> "tools"
      [] t = "PROMPTS" -> "prompts"
      [] t = "HELP" -> "help"
      [] t = "QUIT" -> "quit"
      [] t = "EXIT" -> "exit"
      [] t = "Q" -> "q"
      [] t = "Bug" -> "bug"
      [] t = "FEATURE" -> "feature"
      [] t = "Fixes" -> "fixes"
      [] t = "Error" -> "error"
      [] t = "Gemini" -> "gemini"
      [] t = "API:" -> "api:"
      [] OTHER -> t

LowerForgotten(s) == s

Lower(s) == [i \in 1..Len(s) |-> LowerTok(s[i])]

(***************************************************************************)
(* json.loads on a token sequence.  A decoded value is a record            *)
(*   [kind, str, text, keys, vals]                                         *)
(* kind "object": keys[i] is the i-th member's key, vals[i] its value;     *)
(* kind "array": vals are the elements; kind "string": str is the content  *)
(* of a string literal, or text the tokens of a string the program holds;  *)
(* kind "number".                                                          *)
(***************************************************************************)
StringToks == {"\"error\"", "\"x\"", "\"diff\"", "\"recommended_template\"",
               "\"type\"", "\"reasoning\"", "\"template_content\"",
               "\"Bug Fix\"", "\"raw\""}

StrVal(t) ==
    CASE t = "\"error\"" -> "error"
      [] t = "\"x\"" -> "x"
      [] t = "\"diff\"" -> "diff"
      [] t = "\"recommended_template\"" -> "recommended_template"
      [] t = "\"type\"" -> "type"
      [] t = "\"reasoning\"" -> "reasoning"
      [] t = "\"template_content\"" -> "template_content"
      [] t = "\"Bug Fix\"" -> "Bug Fix"
      [] t = "\"raw\"" -> "raw"

NumberToks == {"1"}

JString(s) == [kind |-> "string", str |-> s, text |-> <<>>, keys |-> <<>>, vals |-> <<>>]
JText(t) == [kind |-> "string", str |-> "", text |-> t, keys |-> <<>>, vals |-> <<>>]
JNumber == [kind |-> "number", str |-> "", text |-> <<>>, keys |-> <<>>, vals |-> <<>>]
JArray(vs) == [kind |-> "array", str |-> "", text |-> <<>>, keys |-> <<>>, vals |-> vs]
JObject(ks, vs) == [kind |-> "object", str |-> "", text |-> <<>>, keys |-> ks, vals |-> vs]

ParseFail == [ok |-> FALSE, val |-> JNumber, next |-> 0]
ParseOk(v, n) == [ok |-> TRUE, val |-> v, next |-> n]

SkipWs(toks, i) ==
    LET rest == {j \in i..Len(toks) : toks[j] \notin Whitespace}
    IN IF rest = {} THEN Len(toks) + 1
       ELSE CHOOSE j \in rest : \A k \in rest : j <= k

Tok(toks, i) == IF i >= 1 /\ i <= Len(toks) THEN toks[i] ELSE "<eof>"

RECURSIVE ParseValue(_, _)
RECURSIVE ParseMembers(_, _, _, _)
RECURSIVE ParseElements(_, _, _)

\* members after "{" or after ",": string ":" value, then "," or "}"
ParseMembers(toks, i, ks, vs) ==
    LET k == SkipWs(toks, i)
        c == SkipWs(toks, k + 1)
    IN IF Tok(toks, k) \notin StringToks \/ Tok(toks, c) # ":" THEN ParseFail
       ELSE LET v == ParseValue(toks, c + 1)
                e == SkipWs(toks, v.next)
            IN IF ~v.ok THEN ParseFail
               ELSE IF Tok(toks, e) = ","
                    THEN ParseMembers(toks, e + 1,
                                      Append(ks, StrVal(toks[k])), Append(vs, v.val))
               ELSE IF Tok(toks, e) = "}"
                    THEN ParseOk(JObject(Append(ks, StrVal(toks[k])),
                                         Append(vs, v.val)), e + 1)
               ELSE ParseFail

\* elements after "[" or after ",": value, then "," or "]"
ParseElements(toks, i, vs) ==
    LET v == ParseValue(toks, i)
        e == SkipWs(toks, v.next)
    IN IF ~v.ok THEN ParseFail
       ELSE IF Tok(toks, e) = "," THEN ParseElements(toks, e + 1, Append(vs, v.val))
       ELSE IF Tok(toks, e) = "]" THEN ParseOk(JArray(Append(vs, v.val)), e + 1)
       ELSE ParseFail

ParseValue(toks, i) ==
    LET s == SkipWs(toks, i)
        t == Tok(toks, s)
    IN IF t \in StringToks THEN ParseOk(JString(StrVal(t)), s + 1)
       ELSE IF t \in NumberToks THEN ParseOk(JNumber, s + 1)
       ELSE IF t = "{"
            THEN IF Tok(toks, SkipWs(toks, s + 1)) = "}"
                 THEN ParseOk(JObject(<<>>, <<>>), SkipWs(toks, s + 1) + 1)
                 ELSE ParseMembers(toks, s + 1, <<>>, <<>>)
       ELSE IF t = "["
            THEN IF Tok(toks, SkipWs(toks, s + 1)) = "]"
                 THEN ParseOk(JArray(<<>>), SkipWs(toks, s + 1) + 1)
                 ELSE ParseElements(toks, s + 1, <<>>)
       ELSE ParseFail

\* json.loads(text): ok, or JSONDecodeError (also for trailing data)
json_loads(text) ==
    LET v == ParseValue(text, 1)
    IN IF v.ok /\ SkipWs(text, v.next) = Len(text) + 1
       THEN [ok |-> TRUE, val |-> v.val]
       ELSE [ok |-> FALSE, val |-> JNumber]

(***************************************************************************)
(* The inputs of the model: the process environment, the command line,     *)
(* what the tool gateway advertises and answers, what the AI service       *)
(* answers, and what the operator types.                                   *)
(***************************************************************************)
\* os.getenv of a variable: absent (None), set to "", or set to a value
EnvValues == {"absent", "empty", "set"}
SlackEnvValues == {"absent", "set"}

\* sys.argv[1], "<none>" when there is no argument; "help" never reaches main
Argvs == {"<none>", "analyze", "ci-status", "slack-alert", "interactive", "deploy"}

AllTools == {"analyze_file_changes", "get_pr_templates", "suggest_template",
             "get_recent_actions_events", "get_workflow_status",
             "send_slack_notification"}

\* the tool lists the gateway may advertise
Catalogs == {AllTools, {}} \cup
            {AllTools \ {t} : t \in {"suggest_template", "get_workflow_status",
                                     "send_slack_notification"}}
PromptCatalogs == {{}, {"generate_pr_description"}}

ChangesJson == <<"{", "\"diff\"", ":", "\"x\"", "}">>
ErrorJson == <<"{", "\"error\"", ":", "\"x\"", "}">>
TemplateJson == <<"{", "\"recommended_template\"", ":", "{", "\"type\"", ":",
                  "\"Bug Fix\"", "}", ",", "\"reasoning\"", ":", "\"x\"", ",",
                  "\"template_content\"", ":", "\"x\"", "}">>

\* a template reply that also carries an `error` member
TemplateErrorJson == <<"{", "\"error\"", ":", "\"x\"", ",">> \o Tail(TemplateJson)

\* the first text block of a response of analyze_file_changes, of
\* suggest_template, and of the status and notification tools
ChangesTexts == {<<>>, <<"oops">>, ErrorJson, ChangesJson, <<"1">>,
                 <<"[", "\"error\"", "]">>}
TemplateTexts == {<<>>, <<"oops">>, ErrorJson, TemplateJson, TemplateErrorJson,
                  <<"{", "}", "\n">>, <<"1">>,
                  <<"[", "\"error\"", "]">>, <<"\"error\"">>}
StatusTexts == {<<>>, <<"passing">>, ErrorJson}
ToolTexts == ChangesTexts \cup TemplateTexts \cup StatusTexts
\* the blocks after the first
ExtraBlocks == {<<"oops">>}

\* session.call_tool: raises, or returns a result whose content is a list of
\* up to MaxBlocks text blocks, the first among texts
Responses(texts) ==
    {[raised |-> TRUE, content |-> <<>>]} \cup
    {[raised |-> FALSE, content |-> c] :
        c \in {<<>>} \cup
              {<<t>> \o rest : t \in texts,
                               rest \in UNION {[1..n -> ExtraBlocks] : n \in 0..(MaxBlocks - 1)}}}

SummaryText == <<"Fixes", " ", "null", " ", "check">>
FilledText == <<"##", " ", "Bug", " ", "Fix">>
AlertText == <<"ci", " ", "ok">>

\* model.generate_content(...).text: raises with message str(e), or a text
AiRaise == [raised |-> TRUE, text |-> <<"boom">>]
AiOk(t) == [raised |-> FALSE, text |-> t]
SummaryOutcomes == {AiRaise, AiOk(SummaryText), AiOk(<<>>)}
ClassifyOutcomes == {AiRaise, AiOk(<<" ", "Bug", "\n">>), AiOk(<<"banana">>)}
FillOutcomes == {AiRaise, AiOk(FilledText)}
ReportOutcomes == {AiRaise, AiOk(AlertText)}

\* the words the operator types at the shell prompt
ShellWords == {"analyze", "1", "ci-status", "2", "slack-alert", "3", "tools", "4",
               "prompts", "5", "help", "6", "quit", "exit", "q", "7",
               "ANALYZE", "Analyze", "CI-STATUS", "SLACK-ALERT", "TOOLS", "PROMPTS",
               "HELP", "QUIT", "EXIT", "Q", "deploy", "8"}
Pads == UNION {[1..n -> {" "}] : n \in 0..MaxPad}
Lines == {<<>>} \cup {l \o <<w>> \o r : l \in Pads, w \in ShellWords, r \in Pads}
           \cup {<<"ana", " ", "lyze">>}
\* input(): a line, or EOFError / KeyboardInterrupt
Inputs == {[sig |-> "line", text |-> l] : l \in Lines} \cup
          {[sig |-> s, text |-> <<>>] : s \in {"EOFError", "KeyboardInterrupt"}}

\* the choices the operator types at the disposition menu
MenuInputs == {[sig |-> "line", text |-> l] :
                  l \in {<<"1">>, <<"2">>, <<"3">>, <<"4">>, <<" ", "1">>, <<>>}} \cup
              {[sig |-> s, text |-> <<>>] : s \in {"EOFError", "KeyboardInterrupt"}}

(***************************************************************************)
(* The client's methods, as functions of their inputs.                     *)
(***************************************************************************)
CallToolCheckSkipCatalog(sess, tools, tool_name) ==
    IF sess = "none" THEN "RuntimeError" ELSE "none"

\* call_mcp_tool up to the forwarded call: the exception it raises, or "none"
CallToolCheck(sess, tools, tool_name) ==
    IF sess = "none" THEN "RuntimeError"
    ELSE IF tool_name \notin tools THEN "ValueError"
    ELSE "none"

\* call_mcp_tool after the forwarded call returned: the text it returns
CallToolText(result) ==
    IF result.content # <<>> THEN result.content[1] ELSE <<>>

ErrorMarker == <<"Error", " ", "calling", " ", "Gemini", " ", "API:", " ">>

\* analyze_with_gemini: the text it submits
FullPrompt(prompt, context) ==
    IF context # <<>> THEN context \o <<"\n", "\n">> \o prompt ELSE prompt

GeminiReturnNoMarker(outcome) == outcome.text

\* analyze_with_gemini: what it returns for an outcome of generate_content
GeminiReturn(outcome) ==
    IF outcome.raised THEN ErrorMarker \o outcome.text ELSE outcome.text

\* the except branch of the two decode steps
ParseErrorValue(message, raw) ==
    JObject(<<"error", "raw">>, <<JString(message), JText(raw)>>)

\* analyze_pr_changes: json.loads(changes_data), or the error mapping
DecodeChanges(changes_data) ==
    IF json_loads(changes_data).ok THEN json_loads(changes_data).val
    ELSE ParseErrorValue("Failed to parse changes data", changes_data)

DecodeTemplateNoRaw(template_data) ==
    IF json_loads(template_data).ok THEN json_loads(template_data).val
    ELSE JObject(<<"error">>, <<JString("Failed to parse template data")>>)

\* suggest_pr_template: json.loads(template_data), or the error mapping
DecodeTemplate(template_data) ==
    IF json_loads(template_data).ok THEN json_loads(template_data).val
    ELSE ParseErrorValue("Failed to parse template data", template_data)

(***************************************************************************)
(* Python's operations on a decoded value.                                 *)
(***************************************************************************)
\* the string contents of the model of which "error" is a substring
ContainsError == {"error"}

HasKey(v, key) == \E i \in 1..Len(v.keys) : v.keys[i] = key

\* v[key] of a mapping that has the key: the last member of that name
GetKey(v, key) ==
    v.vals[CHOOSE i \in 1..Len(v.keys) :
               v.keys[i] = key /\ \A j \in (i + 1)..Len(v.keys) : v.keys[j] # key]

InErrorNever(v) == "no"

\* `"error" in v`: "yes", "no", or the exception it raises
InError(v) ==
    CASE v.kind = "object" -> IF HasKey(v, "error") THEN "yes" ELSE "no"
      [] v.kind = "array" ->
            IF \E i \in 1..Len(v.vals) : v.vals[i] = JString("error") THEN "yes" ELSE "no"
      [] v.kind = "string" -> IF v.str \in ContainsError THEN "yes" ELSE "no"
      [] OTHER -> "TypeError"

\* v[key] with a string key: the exception it raises, or "none"
Subscript(v, key) ==
    CASE v.kind = "object" -> IF HasKey(v, key) THEN "none" ELSE "KeyError"
      [] OTHER -> "TypeError"

\* the lookups of generate_pr_description's template branch (lines 439-453):
\* the exception they raise, or "none"
TemplateLookups(ts) ==
    IF Subscript(ts, "recommended_template") # "none"
    THEN Subscript(ts, "recommended_template")
    ELSE IF Subscript(GetKey(ts, "recommended_template"), "type") # "none"
    THEN Subscript(GetKey(ts, "recommended_template"), "type")
    ELSE IF Subscript(ts, "reasoning") # "none" THEN Subscript(ts, "reasoning")
    ELSE Subscript(ts, "template_content")

\* str(v) inside an f-string
Format(v) ==
    CASE v.kind = "string" -> IF v.text # <<>> THEN v.text ELSE <<v.str>>
      [] v.kind = "number" -> <<"1">>
      [] OTHER -> <<"<repr>">>

(***************************************************************************)
(* The fixed instructions.  Each stands for the literal text of the source.*)
(***************************************************************************)
AnalysisPrompt == <<"<analysis_prompt>">>
ChangeTypePrompt == <<"<change_type_prompt>">>
FillTemplatePrompt(ai_text, template_content) ==
    <<"<fill_context>">> \o ai_text \o <<"<fill_task>">> \o template_content
        \o <<"<fill_requirements>">>
CiPromptEventsOnly(events, workflows) ==
    <<"<ci_events>">> \o events \o <<"<ci_workflows>">> \o <<"<ci_provide>">>
CiPrompt(events, workflows) ==
    <<"<ci_events>">> \o events \o <<"<ci_workflows>">> \o workflows \o <<"<ci_provide>">>
AlertPrompt(workflow_data) ==
    <<"<alert_status>">> \o workflow_data \o <<"<alert_format>">>

\* the arguments of the fixed tool calls, as texts
BaseBranchArgs == <<"base_branch", "=", "main">>
LimitArgs == <<"limit", "=", "10">>

(***************************************************************************)
(* The interactive shell's command table (interactive_mode, lines 126-141):*)
(* what a trimmed, lower-cased line dispatches to.                         *)
(***************************************************************************)
Dispatch(command) ==
    CASE command \in {<<"quit">>, <<"exit">>, <<"q">>, <<"7">>} -> "quit"
      [] command \in {<<"analyze">>, <<"1">>} -> "analyze"
      [] command \in {<<"ci-status">>, <<"2">>} -> "ci-status"
      [] command \in {<<"slack-alert">>, <<"3">>} -> "slack-alert"
      [] command \in {<<"tools">>, <<"4">>} -> "tools"
      [] command \in {<<"prompts">>, <<"5">>} -> "prompts"
      [] command \in {<<"help">>, <<"6">>} -> "help"
      [] OTHER -> "unknown"

\* handle_command (lines 96-106): what a command-line argument dispatches to
HandleCommand(command) ==
    CASE command = "analyze" -> "analyze"
      [] command = "ci-status" -> "ci-status"
      [] command = "slack-alert" -> "slack-alert"
      [] command = "interactive" -> "interactive"
      [] OTHER -> "unknown"

(***************************************************************************)
(* The state.                                                              *)
(***************************************************************************)
VARIABLES
    env_gemini,         \* os.getenv("GEMINI_API_KEY")
    env_slack,          \* os.getenv("SLACK_WEBHOOK_URL")
    server_exists,      \* one of main's server paths exists
    argv,               \* sys.argv[1], or "<none>"
    pc,                 \* where the process is suspended
    mode,               \* "interactive": inside interactive_mode; "command" otherwise
    session,            \* self.session: "none" or "set"
    conn,               \* the ClientSession: "unopened", "open", "closed"
    connlog,            \* the calls of the connection steps, in order
    subprocess,         \* the tool host: "none", "running", "terminated"
    available_tools,    \* self.available_tools (its keys)
    available_prompts,  \* self.available_prompts (its keys)
    wf,                 \* what the last command dispatched to
    log,                \* the remote calls of the current command, in order
    report,             \* what the current command has printed
    exc,                \* the exception propagating out of the workflows
    line,               \* what input() last returned, NoLine once the command runs
    choice,             \* what input() returned at the disposition menu
    signal,             \* the EOFError / KeyboardInterrupt input() last raised
    changes_json,       \* analysis["changes_data"]
    ai_analysis,        \* analysis["ai_analysis"]
    change_type,        \* generate_pr_description's change_type
    template_suggestion,\* generate_pr_description's template_suggestion
    filled_template,    \* generate_pr_description's filled_template
    files,              \* the names of the files written
    probe               \* the last direct call of call_mcp_tool: its inputs

envvars == <<env_gemini, env_slack, server_exists, argv>>
connvars == <<session, conn, subprocess, connlog>>
catalogs == <<available_tools, available_prompts>>
shellvars == <<line, choice, signal>>
locals == <<changes_json, ai_analysis, change_type, template_suggestion,
            filled_template>>
vars == <<envvars, pc, mode, connvars, catalogs, wf, log, report, exc, shellvars,
          locals, files, probe>>

JNone == [kind |-> "none", str |-> "", text |-> <<>>, keys |-> <<>>, vals |-> <<>>]
NoLine == <<"<no line>">>
NoProbe == [tool_name |-> "", content |-> <<>>, raised |-> FALSE]

\* a remote call: a tool call (a, b its arguments) or an AI call (a the
\* instruction, b the context, sent the text submitted).  remote is how the
\* remote end answered, resp its text or its error message, status and ret
\* how the client's method ended and what it returned.
ToolCall(name, a, b) ==
    [kind |-> "tool", name |-> name, a |-> a, b |-> b, sent |-> <<>>,
     remote |-> "pending", resp |-> <<>>, status |-> "inflight", ret |-> <<>>]
AiCall(name, prompt, context) ==
    [kind |-> "ai", name |-> name, a |-> prompt, b |-> context,
     sent |-> FullPrompt(prompt, context),
     remote |-> "pending", resp |-> <<>>, status |-> "inflight", ret |-> <<>>]

ReturnedStillInflight(l, text) == l

RaisedThenReissued(l) ==
    Append([l EXCEPT ![Len(l)] = [@ EXCEPT !.remote = "failed", !.status = "raised"]],
           l[Len(l)])

\* the log with its last tool call returned or raised
Returned(l, text) ==
    [l EXCEPT ![Len(l)] = [@ EXCEPT !.remote = "ok", !.status = "returned", !.ret = text]]
Raised(l) ==
    [l EXCEPT ![Len(l)] = [@ EXCEPT !.remote = "failed", !.status = "raised"]]
\* the log with its last AI call returned (lines 238-243)
Answered(l, outcome) ==
    [l EXCEPT ![Len(l)] = [@ EXCEPT !.remote = IF outcome.raised THEN "failed" ELSE "ok",
                                    !.resp = outcome.text,
                                    !.status = "returned",
                                    !.ret = GeminiReturn(outcome)]]

\* a call of the connection steps (lines 62-72) and how it ended
ConnCall(name) == [name |-> name, status |-> "inflight"]
ConnDone(l, status) == [l EXCEPT ![Len(l)] = [@ EXCEPT !.status = status]]

\* where control goes when a workflow returns
ReturnPc == IF mode = "interactive" THEN "shell_sep" ELSE "scope_exit"

ClearLocals ==
    /\ changes_json' = JNone
    /\ ai_analysis' = <<>>
    /\ change_type' = <<>>
    /\ template_suggestion' = JNone
    /\ filled_template' = <<>>

\* a workflow returns, having printed tags
Finish(tags) ==
    /\ pc' = ReturnPc
    /\ report' = report \o tags
    /\ exc' = exc

\* an exception leaves a workflow that has no handler: interactive_mode and
\* handle_command do not catch it, and it reaches the connection scope
Raise(e) ==
    /\ pc' = "unwind"
    /\ exc' = e
    /\ report' = report

Init ==
    /\ env_gemini \in EnvValues
    /\ env_slack \in SlackEnvValues
    /\ server_exists \in BOOLEAN
    /\ argv \in Argvs
    /\ pc = "main"
    /\ mode = "command"
    /\ session = "none"
    /\ conn = "unopened"
    /\ subprocess = "none"
    /\ connlog = <<>>
    /\ available_tools = {}
    /\ available_prompts = {}
    /\ wf = "none"
    /\ log = <<>>
    /\ report = <<>>
    /\ exc = "none"
    /\ line = NoLine
    /\ choice = NoLine
    /\ signal = "none"
    /\ changes_json = JNone
    /\ ai_analysis = <<>>
    /\ change_type = <<>>
    /\ template_suggestion = JNone
    /\ filled_template = <<>>
    /\ files = {}
    /\ probe = NoProbe

(***************************************************************************)
(* main and connect_to_mcp_server.                                         *)
(***************************************************************************)
EnvironmentOkNoneOnly == env_gemini # "absent"

\* main's check of the environment (lines 521-527): TRUE when main goes on
EnvironmentOk == env_gemini = "set"

\* main (lines 515-558) up to the first await of connect_to_mcp_server
\* (line 62): client_ok is whether MCPGeminiClient(...) returns, spawn_ok
\* whether stdio_client starts the subprocess
Main ==
    /\ pc = "main"
    /\ \E client_ok \in BOOLEAN, spawn_ok \in BOOLEAN :
          IF ~EnvironmentOk
          THEN /\ report' = <<"set_gemini_api_key">>
               /\ pc' = "done"
               /\ UNCHANGED <<connvars, exc>>
          ELSE IF ~server_exists
          THEN /\ report' = <<"no_server_found">>
               /\ pc' = "done"
               /\ UNCHANGED <<connvars, exc>>
          ELSE IF ~client_ok
          THEN /\ report' = <<"failed_to_initialize">>
               /\ pc' = "done"
               /\ UNCHANGED <<connvars, exc>>
          ELSE IF ~spawn_ok
          THEN /\ report' = <<"error_connecting">>
               /\ exc' = "OSError"
               /\ pc' = "done"
               /\ UNCHANGED connvars
          ELSE /\ subprocess' = "running"
               /\ conn' = "open"
               /\ session' = "set"
               /\ connlog' = <<ConnCall("initialize")>>
               /\ pc' = "initialize"
               /\ UNCHANGED <<report, exc>>
    /\ UNCHANGED <<envvars, mode, catalogs, wf, log, shellvars, locals, files, probe>>

InitializeFailureIgnored ==
    /\ pc = "initialize"
    /\ \E ok \in BOOLEAN :
          connlog' = Append(ConnDone(connlog, IF ok THEN "returned" ELSE "raised"),
                            ConnCall("list_tools"))
    /\ pc' = "list_tools"
    /\ UNCHANGED <<envvars, mode, session, conn, subprocess, catalogs, wf, log, report,
                   exc, shellvars, locals, files, probe>>

\* await session.initialize() returns or raises (line 62)
InitializeReturn ==
    /\ pc = "initialize"
    /\ \E ok \in BOOLEAN :
          IF ok
          THEN /\ connlog' = Append(ConnDone(connlog, "returned"), ConnCall("list_tools"))
               /\ pc' = "list_tools"
               /\ exc' = exc
          ELSE /\ connlog' = ConnDone(connlog, "raised")
               /\ pc' = "unwind"
               /\ exc' = "McpError"
    /\ UNCHANGED <<envvars, mode, session, conn, subprocess, catalogs, wf, log, report,
                   shellvars, locals, files, probe>>

\* await session.list_tools() returns or raises (lines 65-68)
ListToolsReturn ==
    /\ pc = "list_tools"
    /\ \/ \E tools \in Catalogs :
             /\ available_tools' = tools
             /\ connlog' = Append(ConnDone(connlog, "returned"), ConnCall("list_prompts"))
             /\ pc' = "list_prompts"
             /\ exc' = exc
       \/ /\ connlog' = ConnDone(connlog, "raised")
          /\ pc' = "unwind"
          /\ exc' = "McpError"
          /\ UNCHANGED available_tools
    /\ UNCHANGED <<envvars, mode, session, conn, subprocess, available_prompts, wf, log,
                   report, shellvars, locals, files, probe>>

\* where connect_to_mcp_server goes after the catalogs (lines 86-90)
StartPc(target) ==
    CASE target = "analyze" -> "gen_start"
      [] target = "ci-status" -> "ci_start"
      [] target = "slack-alert" -> "alert_start"
      [] target = "interactive" -> "shell_read"
      [] OTHER -> "scope_exit"

ListPromptsFatal ==
    /\ pc = "list_prompts"
    /\ \/ \E prompts \in PromptCatalogs :
             LET target == IF argv = "<none>" THEN "interactive" ELSE HandleCommand(argv)
             IN /\ available_prompts' = prompts
                /\ connlog' = ConnDone(connlog, "returned")
                /\ mode' = IF target = "interactive" THEN "interactive" ELSE "command"
                /\ wf' = IF target = "interactive" THEN "none" ELSE target
                /\ pc' = StartPc(target)
                /\ report' = IF target = "unknown" THEN <<"unknown_command">> ELSE <<>>
                /\ exc' = exc
       \/ /\ connlog' = ConnDone(connlog, "raised")
          /\ pc' = "unwind"
          /\ exc' = "McpError"
          /\ UNCHANGED <<available_prompts, mode, wf, report>>
    /\ UNCHANGED <<envvars, session, conn, subprocess, available_tools, log,
                   shellvars, locals, files, probe>>

\* await session.list_prompts() returns or raises (lines 71-78), then the
\* dispatch on sys.argv (lines 86-90, handle_command)
ListPromptsReturn ==
    /\ pc = "list_prompts"
    /\ \/ \E prompts \in PromptCatalogs :
             /\ available_prompts' = prompts
             /\ connlog' = ConnDone(connlog, "returned")
       \/ /\ available_prompts' = {}
          /\ connlog' = ConnDone(connlog, "raised")
    /\ LET target == IF argv = "<none>" THEN "interactive" ELSE HandleCommand(argv)
       IN /\ mode' = IF target = "interactive" THEN "interactive" ELSE "command"
          /\ wf' = IF target = "interactive" THEN "none" ELSE target
          /\ pc' = StartPc(target)
          /\ report' = IF target = "unknown" THEN <<"unknown_command">> ELSE <<>>
    /\ UNCHANGED <<envvars, session, conn, subprocess, available_tools, log, exc,
                   shellvars, locals, files, probe>>

ScopeExitLeaksOnError ==
    /\ pc \in {"scope_exit", "unwind"}
    /\ conn' = IF exc = "none" THEN "closed" ELSE conn
    /\ subprocess' = IF exc = "none" THEN "terminated" ELSE subprocess
    /\ report' = IF exc # "none" THEN Append(report, "error_connecting") ELSE report
    /\ pc' = "done"
    /\ line' = NoLine
    /\ UNCHANGED <<envvars, mode, session, connlog, catalogs, wf, log, exc, choice, signal,
                   locals, files, probe>>

\* the connection scope is left (the two `async with` of lines 57-58), by
\* return or by an exception, which main then catches (lines 559-564)
ScopeExit ==
    /\ pc \in {"scope_exit", "unwind"}
    /\ conn' = "closed"
    /\ subprocess' = "terminated"
    /\ report' = IF exc # "none" THEN Append(report, "error_connecting") ELSE report
    /\ pc' = "done"
    /\ line' = NoLine
    /\ UNCHANGED <<envvars, mode, session, connlog, catalogs, wf, log, exc, choice, signal,
                   locals, files, probe>>

(***************************************************************************)
(* interactive_mode (lines 108-148).                                       *)
(***************************************************************************)
\* input() returns a line or raises EOFError / KeyboardInterrupt (line 124,
\* lines 145-148)
ShellInput ==
    /\ pc = "shell_read"
    /\ \E inp \in Inputs :
          IF inp.sig = "line"
          THEN /\ line' = inp.text
               /\ pc' = "shell_dispatch"
               /\ UNCHANGED <<wf, report, signal>>
          ELSE /\ line' = NoLine
               /\ signal' = inp.sig
               /\ pc' = "scope_exit"
               /\ wf' = "interrupt"
               /\ report' = <<"goodbye">>
    /\ UNCHANGED <<envvars, mode, connvars, catalogs, log, exc, choice, locals, files,
                   probe>>

ShellPcQuitIgnored(target) ==
    CASE target = "analyze" -> "gen_start"
      [] target = "ci-status" -> "ci_start"
      [] target = "slack-alert" -> "alert_start"
      [] OTHER -> "shell_sep"

\* where a shell command goes
ShellPc(target) ==
    CASE target = "quit" -> "scope_exit"
      [] target = "analyze" -> "gen_start"
      [] target = "ci-status" -> "ci_start"
      [] target = "slack-alert" -> "alert_start"
      [] OTHER -> "shell_sep"

\* what the commands that call no workflow print
ShellPrints(target) ==
    CASE target = "quit" -> <<"goodbye">>
      [] target = "tools" -> <<"tools_listed">>
      [] target = "prompts" ->
            IF available_prompts = {} THEN <<"no_prompts">> ELSE <<"prompts_listed">>
      [] target = "help" -> <<"help">>
      [] target = "unknown" -> <<"unknown_command">>
      [] OTHER -> <<>>

\* .strip().lower() and the command table (lines 124-141)
ShellDispatch ==
    /\ pc = "shell_dispatch"
    /\ LET command == Lower(Strip(line))
       IN /\ wf' = Dispatch(command)
          /\ pc' = ShellPc(Dispatch(command))
          /\ report' = ShellPrints(Dispatch(command))
    /\ UNCHANGED <<envvars, mode, connvars, catalogs, log, exc, shellvars, locals,
                   files, probe>>

\* print() after a command (line 143); the next prompt follows
ShellSep ==
    /\ pc = "shell_sep"
    /\ pc' = "shell_read"
    /\ wf' = "none"
    /\ log' = <<>>
    /\ report' = <<>>
    /\ line' = NoLine
    /\ choice' = NoLine
    /\ signal' = "none"
    /\ ClearLocals
    /\ UNCHANGED <<envvars, mode, connvars, catalogs, exc, files, probe>>

\* what the steps of a workflow leave alone
fixed == <<envvars, mode, connvars, catalogs, wf, probe>>

(***************************************************************************)
(* generate_pr_description (lines 392-476) with analyze_pr_changes,        *)
(* suggest_pr_template and post_generation_options.  It has no handler:    *)
(* an exception leaves it.                                                 *)
(***************************************************************************)
\* lines 399-403, 337-341: the diff-analysis tool call is issued
GenStart ==
    /\ pc = "gen_start"
    /\ LET chk == CallToolCheck(session, available_tools, "analyze_file_changes")
       IN IF chk # "none"
          THEN Raise(chk) /\ log' = log
          ELSE /\ log' = Append(log, ToolCall("analyze_file_changes", BaseBranchArgs, <<>>))
               /\ pc' = "apc_tool"
               /\ UNCHANGED <<report, exc>>
    /\ line' = NoLine
    /\ UNCHANGED <<fixed, choice, signal, locals, files>>

\* lines 341-361: the tool call returns, the decode step, the summary AI call
ApcToolReturn ==
    /\ pc = "apc_tool"
    /\ \E r \in Responses(ChangesTexts) :
          IF r.raised
          THEN Raise("McpError") /\ log' = Raised(log) /\ UNCHANGED changes_json
          ELSE /\ changes_json' = DecodeChanges(CallToolText(r))
               /\ log' = Append(Returned(log, CallToolText(r)),
                                AiCall("summarize", AnalysisPrompt, CallToolText(r)))
               /\ pc' = "apc_ai"
               /\ UNCHANGED <<report, exc>>
    /\ UNCHANGED <<fixed, shellvars, ai_analysis, change_type, template_suggestion,
                   filled_template, files>>

\* lines 361-424: the summary returns, the check of the `error` key, the
\* classification AI call
ApcAiReturn ==
    /\ pc = "apc_ai"
    /\ \E o \in SummaryOutcomes :
          LET err == InError(changes_json)
          IN /\ ai_analysis' = GeminiReturn(o)
             /\ log' = IF err = "no"
                       THEN Append(Answered(log, o),
                                   AiCall("classify", ChangeTypePrompt, GeminiReturn(o)))
                       ELSE Answered(log, o)
             /\ IF err = "TypeError" THEN Raise("TypeError")
                ELSE IF err = "yes"
                THEN IF Subscript(changes_json, "error") # "none"
                     THEN Raise(Subscript(changes_json, "error"))
                     ELSE Finish(<<"error_analyzing_changes">>)
                ELSE /\ report' = report \o <<"changes_analyzed">>
                     /\ pc' = "gen_classify"
                     /\ exc' = exc
    /\ UNCHANGED <<fixed, shellvars, changes_json, change_type, template_suggestion,
                   filled_template, files>>

\* lines 421-433, 379-382: the classification returns, trimmed and
\* lower-cased; the template tool call is issued
GenClassifyReturn ==
    /\ pc = "gen_classify"
    /\ \E o \in ClassifyOutcomes :
          LET chk == CallToolCheck(session, available_tools, "suggest_template")
          IN /\ change_type' = Lower(Strip(GeminiReturn(o)))
             /\ IF chk # "none"
                THEN Raise(chk) /\ log' = Answered(log, o)
                ELSE /\ log' = Append(Answered(log, o),
                                      ToolCall("suggest_template", ai_analysis,
                                               Lower(Strip(GeminiReturn(o)))))
                     /\ pc' = "tpl_tool"
                     /\ UNCHANGED <<report, exc>>
    /\ UNCHANGED <<fixed, shellvars, changes_json, ai_analysis, template_suggestion,
                   filled_template, files>>

\* generate_pr_description after suggest_pr_template returned ts (lines
\* 435-465, 476): the exception the checks and lookups raise, or "none"
TemplateFault(ts) ==
    IF InError(ts) = "TypeError" THEN "TypeError"
    ELSE IF InError(ts) = "yes"
    THEN (IF ts.kind = "object" THEN "none" ELSE "AttributeError")
    ELSE TemplateLookups(ts)

TplToolReturnSkipsFill ==
    /\ pc = "tpl_tool"
    /\ \E r \in Responses(TemplateTexts) :
          /\ template_suggestion' = DecodeTemplate(CallToolText(r))
          /\ log' = Returned(log, CallToolText(r))
    /\ report' = report \o <<"generated_pr_description", "menu">>
    /\ pc' = "menu_input"
    /\ UNCHANGED <<fixed, exc, shellvars, changes_json, ai_analysis, change_type,
                   filled_template, files>>

\* lines 379-465, 476: the template tool call returns, the decode step, the
\* check of the `error` key, the fill-template AI call
TplToolReturn ==
    /\ pc = "tpl_tool"
    /\ \E r \in Responses(TemplateTexts) :
          IF r.raised
          THEN Raise("McpError") /\ log' = Raised(log) /\ UNCHANGED template_suggestion
          ELSE LET ts == DecodeTemplate(CallToolText(r))
               IN /\ template_suggestion' = ts
                  /\ IF TemplateFault(ts) # "none"
                     THEN Raise(TemplateFault(ts)) /\ log' = Returned(log, CallToolText(r))
                     ELSE IF InError(ts) = "yes"
                     THEN /\ Finish(<<"error_getting_template">>)
                          /\ log' = Returned(log, CallToolText(r))
                     ELSE /\ log' = Append(Returned(log, CallToolText(r)),
                                           AiCall("fill",
                                                  FillTemplatePrompt(ai_analysis,
                                                      Format(GetKey(ts, "template_content"))),
                                                  <<>>))
                          /\ report' = report \o <<"recommended_template">>
                          /\ pc' = "gen_fill"
                          /\ exc' = exc
    /\ UNCHANGED <<fixed, shellvars, changes_json, ai_analysis, change_type,
                   filled_template, files>>

\* lines 465-488: the filled template returns; the disposition menu is shown
GenFillReturn ==
    /\ pc = "gen_fill"
    /\ \E o \in FillOutcomes :
          /\ filled_template' = GeminiReturn(o)
          /\ log' = Answered(log, o)
    /\ report' = report \o <<"generated_pr_description", "menu">>
    /\ pc' = "menu_input"
    /\ UNCHANGED <<fixed, exc, shellvars, changes_json, ai_analysis, change_type,
                   template_suggestion, files>>

SlackPreviewLen == 500

FileNameFixed(ct) == <<"pr_description.md">>

\* line 491
FileName(ct) == <<"pr_description_">> \o ct \o <<".md">>

\* line 498
SlackMessage(ct, pr_description) ==
    <<"<new_pr_ready>">> \o ct \o <<"\n", "\n">>
        \o SubSeq(pr_description, 1,
                  IF Len(pr_description) < SlackPreviewLen THEN Len(pr_description)
                  ELSE SlackPreviewLen)
        \o <<"...">>

\* post_generation_options (lines 487-513): the operator's choice.  open()
\* of the save branch writes the file or raises OSError; pyperclip.copy of
\* the clipboard branch returns, is missing (ImportError, handled at line
\* 509), or raises
MenuInput ==
    /\ pc = "menu_input"
    /\ \E inp \in MenuInputs, io \in {"ok", "missing", "raises"} :
          LET chosen == Strip(inp.text)
          IN /\ choice' = IF inp.sig = "line" THEN inp.text ELSE NoLine
             /\ signal' = IF inp.sig = "line" THEN signal ELSE inp.sig
             /\ IF inp.sig # "line"
                THEN Finish(<<>>) /\ UNCHANGED <<log, files>>
                ELSE IF chosen = <<"1">>
                THEN IF io = "raises"
                     THEN Raise("OSError") /\ UNCHANGED <<log, files>>
                     ELSE /\ files' = files \cup {FileName(change_type)}
                          /\ Finish(<<"saved">>)
                          /\ log' = log
                ELSE IF chosen = <<"2">> /\ "send_slack_notification" \in available_tools
                THEN LET chk == CallToolCheck(session, available_tools,
                                              "send_slack_notification")
                     IN IF chk # "none"
                        THEN Raise(chk) /\ UNCHANGED <<log, files>>
                        ELSE /\ log' = Append(log, ToolCall("send_slack_notification",
                                                  SlackMessage(change_type, filled_template),
                                                  <<>>))
                             /\ pc' = "menu_slack"
                             /\ UNCHANGED <<report, exc, files>>
                ELSE IF chosen = <<"2">>
                THEN Finish(<<"slack_tool_not_available">>) /\ UNCHANGED <<log, files>>
                ELSE IF chosen = <<"3">>
                THEN IF io = "raises"
                     THEN Raise("PyperclipException") /\ UNCHANGED <<log, files>>
                     ELSE /\ Finish(IF io = "ok" THEN <<"clipboard">>
                                    ELSE <<"pyperclip_not_installed">>)
                          /\ UNCHANGED <<log, files>>
                ELSE Finish(<<>>) /\ UNCHANGED <<log, files>>
    /\ UNCHANGED <<fixed, line, locals>>

\* lines 499-500: the notification tool call of the menu returns
MenuSlackReturn ==
    /\ pc = "menu_slack"
    /\ \E r \in Responses(StatusTexts) :
          IF r.raised
          THEN Raise("McpError") /\ log' = Raised(log)
          ELSE Finish(<<"slack_result">>) /\ log' = Returned(log, CallToolText(r))
    /\ UNCHANGED <<fixed, shellvars, locals, files>>

(***************************************************************************)
(* analyze_ci_status (lines 245-283).  Its handler catches every Exception.*)
(***************************************************************************)
\* lines 247-252: the recent-events tool call is issued
CiStart ==
    /\ pc = "ci_start"
    /\ IF CallToolCheck(session, available_tools, "get_recent_actions_events") # "none"
       THEN Finish(<<"error_analyzing_ci_status">>) /\ log' = log
       ELSE /\ log' = Append(log, ToolCall("get_recent_actions_events", LimitArgs, <<>>))
            /\ pc' = "ci_events"
            /\ UNCHANGED <<report, exc>>
    /\ line' = NoLine
    /\ UNCHANGED <<fixed, choice, signal, locals, files>>

\* lines 252-255: the events return; the workflow-status tool call is issued
CiEventsReturn ==
    /\ pc = "ci_events"
    /\ \E r \in Responses(StatusTexts) :
          IF r.raised
          THEN Finish(<<"error_analyzing_ci_status">>) /\ log' = Raised(log)
          ELSE IF CallToolCheck(session, available_tools, "get_workflow_status") # "none"
          THEN /\ Finish(<<"error_analyzing_ci_status">>)
               /\ log' = Returned(log, CallToolText(r))
          ELSE /\ log' = Append(Returned(log, CallToolText(r)),
                                ToolCall("get_workflow_status", <<>>, <<>>))
               /\ pc' = "ci_workflows"
               /\ UNCHANGED <<report, exc>>
    /\ UNCHANGED <<fixed, shellvars, locals, files>>

\* lines 255-276: the workflow status returns; the AI call is issued
CiWorkflowsReturn ==
    /\ pc = "ci_workflows"
    /\ \E r \in Responses(StatusTexts) :
          IF r.raised
          THEN Finish(<<"error_analyzing_ci_status">>) /\ log' = Raised(log)
          ELSE /\ log' = Append(Returned(log, CallToolText(r)),
                                AiCall("ci", CiPrompt(log[1].ret, CallToolText(r)), <<>>))
               /\ pc' = "ci_ai"
               /\ UNCHANGED <<report, exc>>
    /\ UNCHANGED <<fixed, shellvars, locals, files>>

\* lines 274-280: the analysis returns and is printed
CiAiReturn ==
    /\ pc = "ci_ai"
    /\ \E o \in ReportOutcomes : log' = Answered(log, o)
    /\ Finish(<<"ci_analysis">>)
    /\ UNCHANGED <<fixed, shellvars, locals, files>>

(***************************************************************************)
(* send_ci_alert (lines 285-324).  Its handler catches every Exception.    *)
(***************************************************************************)
SlackToolAssumed == TRUE

\* lines 292-294: the guard on the catalog
SlackToolAvailable == "send_slack_notification" \in available_tools

\* lines 287-297: the guard, then the workflow-status tool call is issued
AlertStart ==
    /\ pc = "alert_start"
    /\ IF ~SlackToolAvailable
       THEN Finish(<<"slack_tool_not_available">>) /\ log' = log
       ELSE IF CallToolCheck(session, available_tools, "get_workflow_status") # "none"
       THEN Finish(<<"error_sending_slack_alert">>) /\ log' = log
       ELSE /\ log' = Append(log, ToolCall("get_workflow_status", <<>>, <<>>))
            /\ pc' = "alert_status"
            /\ UNCHANGED <<report, exc>>
    /\ line' = NoLine
    /\ UNCHANGED <<fixed, choice, signal, locals, files>>

\* lines 297-314: the workflow status returns; the AI call is issued
AlertStatusReturn ==
    /\ pc = "alert_status"
    /\ \E r \in Responses(StatusTexts) :
          IF r.raised
          THEN Finish(<<"error_sending_slack_alert">>) /\ log' = Raised(log)
          ELSE /\ log' = Append(Returned(log, CallToolText(r)),
                                AiCall("alert", AlertPrompt(CallToolText(r)), <<>>))
               /\ pc' = "alert_ai"
               /\ UNCHANGED <<report, exc>>
    /\ UNCHANGED <<fixed, shellvars, locals, files>>

AlertAiReturnStopsOnFailure ==
    /\ pc = "alert_ai"
    /\ \E o \in ReportOutcomes :
          IF o.raised
          THEN /\ Finish(<<"error_sending_slack_alert">>)
               /\ log' = Answered(log, o)
          ELSE /\ log' = Append(Answered(log, o),
                                ToolCall("send_slack_notification", GeminiReturn(o), <<>>))
               /\ pc' = "alert_send"
               /\ UNCHANGED <<report, exc>>
    /\ UNCHANGED <<fixed, shellvars, locals, files>>

AlertAiReturnSendsStatus ==
    /\ pc = "alert_ai"
    /\ \E o \in ReportOutcomes :
          log' = Append(Answered(log, o),
                        ToolCall("send_slack_notification", log[1].ret, <<>>))
    /\ pc' = "alert_send"
    /\ UNCHANGED <<fixed, report, exc, shellvars, locals, files>>

\* lines 312-317: the message returns; the notification tool call is issued
AlertAiReturn ==
    /\ pc = "alert_ai"
    /\ \E o \in ReportOutcomes :
          IF CallToolCheck(session, available_tools, "send_slack_notification") # "none"
          THEN /\ Finish(<<"error_sending_slack_alert">>)
               /\ log' = Answered(log, o)
          ELSE /\ log' = Append(Answered(log, o),
                                ToolCall("send_slack_notification", GeminiReturn(o), <<>>))
               /\ pc' = "alert_send"
               /\ UNCHANGED <<report, exc>>
    /\ UNCHANGED <<fixed, shellvars, locals, files>>

\* lines 317-321: the notification tool call returns
AlertSendReturn ==
    /\ pc = "alert_send"
    /\ \E r \in Responses(StatusTexts) :
          IF r.raised
          THEN Finish(<<"error_sending_slack_alert">>) /\ log' = Raised(log)
          ELSE Finish(<<"slack_message">>) /\ log' = Returned(log, CallToolText(r))
    /\ UNCHANGED <<fixed, shellvars, locals, files>>

(***************************************************************************)
(* The process.                                                            *)
(***************************************************************************)
Next ==
    \/ Main
    \/ InitializeReturn
    \/ ListToolsReturn
    \/ ListPromptsReturn
    \/ ScopeExit
    \/ ShellInput
    \/ ShellDispatch
    \/ ShellSep
    \/ GenStart
    \/ ApcToolReturn
    \/ ApcAiReturn
    \/ GenClassifyReturn
    \/ TplToolReturn
    \/ GenFillReturn
    \/ MenuInput
    \/ MenuSlackReturn
    \/ CiStart
    \/ CiEventsReturn
    \/ CiWorkflowsReturn
    \/ CiAiReturn
    \/ AlertStart
    \/ AlertStatusReturn
    \/ AlertAiReturn
    \/ AlertSendReturn

Spec == Init /\ [][Next]_vars

(***************************************************************************)
(* The client used as a library (as src/demo.py does, lines 49-55 and 78): *)
(* a caller attaches a session and a catalog to a fresh client, or not,    *)
(* and calls call_mcp_tool directly.                                       *)
(***************************************************************************)
ToolNames == AllTools \cup {"deploy"}

InitClient ==
    /\ env_gemini = "set"
    /\ env_slack = "set"
    /\ server_exists = TRUE
    /\ argv = "<none>"
    /\ pc = "client"
    /\ mode = "command"
    /\ session = "none"
    /\ conn = "unopened"
    /\ subprocess = "none"
    /\ connlog = <<>>
    /\ available_tools = {}
    /\ available_prompts = {}
    /\ wf = "none"
    /\ log = <<>>
    /\ report = <<>>
    /\ exc = "none"
    /\ line = NoLine
    /\ choice = NoLine
    /\ signal = "none"
    /\ changes_json = JNone
    /\ ai_analysis = <<>>
    /\ change_type = <<>>
    /\ template_suggestion = JNone
    /\ filled_template = <<>>
    /\ files = {}
    /\ probe = NoProbe

\* the caller sets client.session and client.available_tools
ClientAttach ==
    /\ pc = "client"
    /\ session = "none"
    /\ session' = "set"
    /\ conn' = "open"
    /\ subprocess' = "running"
    /\ connlog' = connlog
    /\ \E tools \in Catalogs : available_tools' = tools
    /\ log' = <<>>
    /\ exc' = "none"
    /\ probe' = NoProbe
    /\ UNCHANGED <<envvars, pc, mode, available_prompts, wf, report, shellvars, locals,
                   files>>

\* one call of call_mcp_tool (lines 174-198), start to end: tool_name and
\* the gateway's response r are its inputs; log holds what was forwarded
ClientCallTool ==
    /\ pc = "client"
    /\ \E tool_name \in ToolNames, r \in Responses(ToolTexts) :
          LET chk == CallToolCheck(session, available_tools, tool_name)
          IN /\ probe' = [tool_name |-> tool_name, content |-> r.content,
                          raised |-> r.raised]
             /\ IF chk # "none"
                THEN exc' = chk /\ log' = <<>>
                ELSE IF r.raised
                THEN /\ exc' = "McpError"
                     /\ log' = Raised(<<ToolCall(tool_name, <<>>, <<>>)>>)
                ELSE /\ exc' = "none"
                     /\ log' = Returned(<<ToolCall(tool_name, <<>>, <<>>)>>, CallToolText(r))
    /\ UNCHANGED <<envvars, pc, mode, connvars, catalogs, wf, report, shellvars, locals,
                   files>>

NextClient ==
    \/ ClientAttach
    \/ ClientCallTool

SpecClient == InitClient /\ [][NextClient]_vars

(***************************************************************************)
(* The claims.                                                             *)
(***************************************************************************)
Elems(q) == {q[i] : i \in 1..Len(q)}
Calls(kind) == {i \in 1..Len(log) : log[i].kind = kind}
CallsOf(name) == {i \in 1..Len(log) : log[i].name = name}

\* the diff-fetch response of the current PR analysis decoded to a mapping
\* that has an `error` key
DiffFetchError ==
    /\ wf = "analyze"
    /\ Len(log) >= 1
    /\ log[1].name = "analyze_file_changes"
    /\ log[1].status = "returned"
    /\ changes_json.kind = "object"
    /\ HasKey(changes_json, "error")

\* C1: when the diff-fetch response decodes to a mapping with an `error`
\* key, the PR analysis makes no AI call and no suggest_template call.
C1_NoCallsAfterDiffError ==
    DiffFetchError => Calls("ai") = {} /\ CallsOf("suggest_template") = {}

\* C2: in interactive mode no exception escapes a dispatched workflow: the
\* shell loop ends only by a quit command or by end-of-input / interrupt.
C2_ShellSurvivesWorkflowFailures ==
    mode = "interactive" =>
        /\ exc = "none"
        /\ pc # "unwind"
        /\ pc = "done" => wf \in {"quit", "interrupt"}

\* C3: analyze_with_gemini submits context, a blank line, the instruction
\* (the instruction alone when the context is empty); it never raises; when
\* the remote call fails it returns the error marker followed by the
\* failure's message, and otherwise the response text.
C3_GeminiNeverRaises ==
    \A i \in Calls("ai") :
        /\ log[i].sent = IF Len(log[i].b) > 0
                         THEN log[i].b \o <<"\n", "\n">> \o log[i].a
                         ELSE log[i].a
        /\ log[i].status \in {"inflight", "returned"}
        /\ log[i].status = "inflight" <=> log[i].remote = "pending"
        /\ log[i].remote = "failed" =>
              /\ Len(log[i].ret) >= 8
              /\ SubSeq(log[i].ret, 1, 8) =
                     <<"Error", " ", "calling", " ", "Gemini", " ", "API:", " ">>
              /\ SubSeq(log[i].ret, 9, Len(log[i].ret)) = log[i].resp
        /\ log[i].remote = "ok" => log[i].ret = log[i].resp

\* a failed remote call with a non-empty context has returned its marker
C3_Witness ==
    \E i \in Calls("ai") :
        log[i].remote = "failed" /\ log[i].status = "returned" /\ log[i].b # <<>>

NotJson(text) == ~json_loads(text).ok

IsParseError(v, raw) ==
    /\ v.kind = "object"
    /\ HasKey(v, "error")
    /\ HasKey(v, "raw")
    /\ GetKey(v, "raw") = JText(raw)

\* C4: when a tool response is not valid JSON, the decode step of
\* analyze_pr_changes and of suggest_pr_template yields a mapping with an
\* `error` field and a `raw` field equal to the response text, and no
\* exception leaves the step.
C4_DecodeFailureKeepsRaw ==
    /\ NotJson(<<>>) /\ NotJson(<<"oops">>) /\ ~NotJson(ErrorJson) /\ ~NotJson(TemplateJson)
    /\ (changes_json # JNone /\ NotJson(log[1].ret)) =>
          IsParseError(changes_json, log[1].ret) /\ exc = "none"
    /\ (template_suggestion # JNone /\ NotJson(log[4].ret)) =>
          IsParseError(template_suggestion, log[4].ret) /\ exc = "none"

\* the template tool answered text that is not JSON and the step decoded it
C4_Witness ==
    /\ template_suggestion # JNone
    /\ log[4].name = "suggest_template"
    /\ log[4].ret = <<"oops">>

\* C5: call_mcp_tool raises NotConnected (RuntimeError) before a session is
\* set and UnknownTool (ValueError) for a name outside the catalog, and
\* forwards nothing in both cases; otherwise it forwards exactly one call
\* and returns the first content block's text, or the empty text when the
\* response has no content.
C5_CallToolContract ==
    probe # NoProbe =>
        /\ session = "none" => exc = "RuntimeError" /\ log = <<>>
        /\ (session # "none" /\ probe.tool_name \notin available_tools) =>
              exc = "ValueError" /\ log = <<>>
        /\ (session # "none" /\ probe.tool_name \in available_tools) =>
              /\ Len(log) = 1
              /\ log[1].kind = "tool"
              /\ log[1].name = probe.tool_name
              /\ ~probe.raised =>
                    /\ exc = "none"
                    /\ log[1].status = "returned"
                    /\ log[1].ret = IF Len(probe.content) = 0 THEN <<>>
                                    ELSE probe.content[1]

\* a call before any session was set has failed
C5_Witness ==
    /\ probe # NoProbe
    /\ probe.tool_name \in AllTools
    /\ session = "none"
    /\ exc = "RuntimeError"

\* C6: without the notification tool in the catalog, send_ci_alert reports
\* that it is unavailable and returns having made no remote call.
C6_NoCallsWithoutSlackTool ==
    (wf = "slack-alert" /\ "send_slack_notification" \notin available_tools) =>
        /\ log = <<>>
        /\ exc = "none"
        /\ pc \in {"alert_start", "shell_sep", "scope_exit", "done"}
        /\ pc # "alert_start" => report = <<"slack_tool_not_available">>

\* the alert was asked for while the status tool, but not the notification
\* tool, was in the catalog
C6_Witness ==
    /\ wf = "slack-alert"
    /\ pc \in {"shell_sep", "scope_exit"}
    /\ "send_slack_notification" \notin available_tools
    /\ "get_workflow_status" \in available_tools
    /\ report = <<"slack_tool_not_available">>

\* the line is one of words, with whitespace around it
Spells(l, words) ==
    \E i \in 1..Len(l) :
        l[i] \in words /\ \A j \in (1..Len(l)) \ {i} : l[j] \in {" ", "\t", "\n"}

\* the command table of the claim: each command's numeric alias, the
\* spellings of its keyword alias, and the workflow it stands for
CommandTable ==
    {[name |-> "analyze", aliases |-> {"1", "analyze", "ANALYZE", "Analyze"},
      pc |-> "gen_start", prints |-> {<<>>}],
     [name |-> "ci-status", aliases |-> {"2", "ci-status", "CI-STATUS"},
      pc |-> "ci_start", prints |-> {<<>>}],
     [name |-> "slack-alert", aliases |-> {"3", "slack-alert", "SLACK-ALERT"},
      pc |-> "alert_start", prints |-> {<<>>}],
     [name |-> "tools", aliases |-> {"4", "tools", "TOOLS"},
      pc |-> "shell_sep", prints |-> {<<"tools_listed">>}],
     [name |-> "prompts", aliases |-> {"5", "prompts", "PROMPTS"},
      pc |-> "shell_sep", prints |-> {<<"no_prompts">>, <<"prompts_listed">>}],
     [name |-> "help", aliases |-> {"6", "help", "HELP"},
      pc |-> "shell_sep", prints |-> {<<"help">>}],
     [name |-> "quit", aliases |-> {"7", "quit", "QUIT"},
      pc |-> "scope_exit", prints |-> {<<"goodbye">>}]}

\* C7: a line that spells a command's numeric or keyword alias, in any case
\* and with whitespace around it, dispatches to that command's workflow,
\* and different commands have different workflows.
C7_AliasesDispatch ==
    /\ \A c, d \in CommandTable :
          c.name # d.name => c.pc # d.pc \/ c.prints \cap d.prints = {}
    /\ (mode = "interactive" /\ line # NoLine /\ pc # "shell_dispatch") =>
          \A c \in CommandTable :
              Spells(line, c.aliases) =>
                  wf = c.name /\ pc = c.pc /\ report \in c.prints

\* the padded upper-case keyword was dispatched to the PR analysis
C7_Witness ==
    /\ mode = "interactive"
    /\ line = <<" ", "ANALYZE", " ">>
    /\ pc = "gen_start"
    /\ wf = "analyze"

\* C8: the session and the subprocess are released on every way out of the
\* connection scope: they are open exactly while the process is inside it,
\* and in every terminal state they are closed or were never opened.
C8_SessionReleased ==
    /\ pc = "done" => conn # "open" /\ subprocess # "running"
    /\ conn = "open" <=> pc \notin {"main", "done"}
    /\ subprocess = "running" <=> conn = "open"

\* an exception left a workflow and the process ended with the session closed
C8_Witness ==
    /\ pc = "done"
    /\ exc = "ValueError"
    /\ conn = "closed"
    /\ subprocess = "terminated"

Connected == conn # "unopened" \/ subprocess # "none" \/ session # "none"

\* C9, as claimed: if GEMINI_API_KEY or SLACK_WEBHOOK_URL is absent, main
\* returns before it connects and before any workflow starts.
C9_EitherAbsentIsFatal ==
    (env_gemini # "set" \/ env_slack # "set") =>
        ~Connected /\ pc \in {"main", "done"} /\ wf = "none"

\* C9, amended: if GEMINI_API_KEY is absent or empty, main reports it and
\* returns before it connects and before any workflow starts.
C9_MissingKeyIsFatal ==
    env_gemini # "set" =>
        /\ ~Connected
        /\ wf = "none"
        /\ log = <<>>
        /\ pc \in {"main", "done"}
        /\ pc = "done" => report = <<"set_gemini_api_key">>

\* main has returned on an empty key, with a server present
C9_Witness ==
    /\ env_gemini = "empty"
    /\ server_exists
    /\ pc = "done"
    /\ report = <<"set_gemini_api_key">>

TemplateError ==
    template_suggestion.kind = "object" /\ HasKey(template_suggestion, "error")

\* C10: when the template suggestion has an `error` key, the workflow
\* reports it and returns: no fill-template AI call, no disposition menu, no
\* file written and no notification sent.
C10_TemplateErrorAborts ==
    TemplateError =>
        /\ CallsOf("fill") = {}
        /\ CallsOf("send_slack_notification") = {}
        /\ pc \notin {"gen_fill", "menu_input", "menu_slack", "unwind"}
        /\ Elems(report) \cap {"menu", "saved", "generated_pr_description"} = {}
        /\ report[Len(report)] = "error_getting_template"
        /\ exc = "none"

\* the template tool answered a template together with an `error` member
C10_Witness ==
    /\ TemplateError
    /\ HasKey(template_suggestion, "template_content")
    /\ pc \in {"shell_sep", "scope_exit"}

\* r is s without the whitespace at its two ends, each token lower-cased
TrimmedLowered(r, s) ==
    \E a \in 0..Len(s), b \in 0..Len(s) :
        /\ a + b <= Len(s)
        /\ \A k \in 1..a : s[k] \in {" ", "\t", "\n"}
        /\ \A k \in (Len(s) - b + 1)..Len(s) : s[k] \in {" ", "\t", "\n"}
        /\ a + b < Len(s) =>
              s[a + 1] \notin {" ", "\t", "\n"} /\ s[Len(s) - b] \notin {" ", "\t", "\n"}
        /\ Len(r) = Len(s) - a - b
        /\ \A k \in 1..Len(r) : r[k] = LowerTok(s[a + k])

AllowedChangeTypes == {<<"bug">>, <<"feature">>, <<"docs">>, <<"refactor">>, <<"test">>,
                       <<"performance">>, <<"security">>}

\* C11: the change type handed to suggest_template is the classification
\* call's answer, trimmed and lower-cased, whatever it is; the same value
\* reaches the disposition step.
C11_ChangeTypePassedThrough ==
    /\ \A i \in CallsOf("suggest_template") :
          /\ i = 4
          /\ log[3].name = "classify"
          /\ log[3].status = "returned"
          /\ TrimmedLowered(log[4].b, log[3].ret)
    /\ pc \in {"menu_input", "menu_slack"} =>
          /\ log[4].name = "suggest_template"
          /\ change_type = log[4].b
    /\ (wf = "analyze" /\ pc \in {"menu_slack", "shell_sep", "scope_exit"}) =>
          \A i \in CallsOf("send_slack_notification") :
              SubSeq(log[i].a, 2, 1 + Len(log[4].b)) = log[4].b

\* the error string of a failed classification reached the disposition menu
C11_Witness ==
    /\ pc = "menu_input"
    /\ log[3].remote = "failed"
    /\ change_type \notin AllowedChangeTypes
    /\ change_type[1] = "error"
    /\ log[4].b = change_type

\* C12, as claimed: an end-of-input or interrupt during the interactive
\* shell, at whichever prompt it arrives, ends the shell with the goodbye
\* message.
C12_AnyInterruptEndsShell ==
    (mode = "interactive" /\ signal # "none") =>
        pc \in {"scope_exit", "done"} /\ report = <<"goodbye">>

\* C12, amended: a quit command, or an end-of-input / interrupt at the
\* shell's own prompt, ends the shell with the goodbye message and nothing
\* is dispatched afterwards; an end-of-input / interrupt at the disposition
\* menu only ends the menu, and the shell goes on; no workflow is in
\* progress when the shell reads its prompt.
C12_ShellTermination ==
    /\ [](mode = "interactive" =>
            /\ wf \in {"quit", "interrupt"} =>
                  /\ pc \in {"scope_exit", "done"}
                  /\ report = <<"goodbye">>
                  /\ log = <<>>
            /\ wf = "interrupt" => signal \in {"EOFError", "KeyboardInterrupt"}
            /\ signal # "none" => wf \in {"interrupt", "analyze"}
            /\ (signal # "none" /\ wf = "analyze") =>
                  /\ pc = "shell_sep"
                  /\ exc = "none"
                  /\ report[Len(report)] = "menu"
            /\ pc \in {"shell_read", "shell_dispatch"} =>
                  /\ wf = "none"
                  /\ \A i \in 1..Len(log) : log[i].status # "inflight")
    /\ [][(pc \in {"scope_exit", "done"}) => (pc' = "done" /\ log' = log /\ wf' = wf)]_vars

\* an interrupt at the disposition menu was swallowed and the shell goes on
C12_Witness ==
    /\ mode = "interactive"
    /\ signal = "KeyboardInterrupt"
    /\ wf = "analyze"
    /\ pc = "shell_sep"

\* C13: no remote call is retried: within one run of a workflow, and
\* within the connection steps, every call is issued at most once; a call
\* that raised is the last one issued, and its failure has already reached
\* the caller, as an exception or as a reported error; a failed AI call
\* has returned its error value.
C13_NoRetry ==
    /\ \A i, j \in 1..Len(log) : i # j => log[i].name # log[j].name
    /\ \A i, j \in 1..Len(connlog) : i # j => connlog[i].name # connlog[j].name
    /\ \A i \in 1..Len(log) :
          /\ log[i].status = "raised" =>
                /\ i = Len(log)
                /\ pc \in {"unwind", "shell_sep", "scope_exit", "done"}
                /\ \/ exc = "McpError"
                   \/ /\ exc = "none"
                      /\ report[Len(report)] \in {"error_analyzing_ci_status",
                                                  "error_sending_slack_alert"}
          /\ (log[i].kind = "ai" /\ log[i].remote = "failed") =>
                /\ log[i].status = "returned"
                /\ log[i].ret[1] = "Error"
    /\ \A i \in 1..Len(connlog) :
          (connlog[i].status = "raised" /\ connlog[i].name # "list_prompts") =>
              /\ i = Len(connlog)
              /\ log = <<>>
              /\ exc = "McpError"
              /\ pc \in {"unwind", "done"}

\* the second tool call of the CI workflow failed and the workflow returned
C13_Witness ==
    /\ wf = "ci-status"
    /\ Len(log) = 2
    /\ log[2].status = "raised"
    /\ pc \in {"shell_sep", "scope_exit"}

\* the states in which the process waits for a remote call's response
WaitingPcs == {"initialize", "list_tools", "list_prompts", "apc_tool", "apc_ai",
               "gen_classify", "tpl_tool", "gen_fill", "menu_slack", "ci_events",
               "ci_workflows", "ci_ai", "alert_status", "alert_ai", "alert_send"}

\* C14: at most one remote call is in flight: it is the last one issued,
\* every earlier call has returned, and the process is suspended on it.
C14_OneCallInFlight ==
    LET a == {i \in 1..Len(log) : log[i].status = "inflight"}
        b == {i \in 1..Len(connlog) : connlog[i].status = "inflight"}
    IN /\ Cardinality(a) + Cardinality(b) <= 1
       /\ \A i \in a : i = Len(log)
       /\ \A i \in b : i = Len(connlog) /\ log = <<>>
       /\ (a \cup b # {}) <=> pc \in WaitingPcs

\* the second tool call of the CI workflow is in flight, the first returned
C14_Witness ==
    /\ pc = "ci_workflows"
    /\ Len(log) = 2
    /\ log[1].status = "returned"
    /\ log[2].status = "inflight"

\* C15: a file is written only by the save choice of the disposition menu,
\* and it is the file pr_description_<change_type>.md: every other choice,
\* an end-of-input / interrupt at the menu, and every other step of every
\* workflow leave the files alone.
C15_OnlySaveWrites ==
    /\ [](\A f \in files :
            /\ Len(f) >= 2
            /\ f[1] = "pr_description_"
            /\ f[Len(f)] = ".md")
    /\ [][files' # files =>
            /\ pc = "menu_input"
            /\ wf = "analyze"
            /\ choice' \in {<<"1">>, <<" ", "1">>}
            /\ signal' = signal
            /\ files' = files \cup {<<"pr_description_">> \o change_type \o <<".md">>}
            /\ report' = report \o <<"saved">>]_vars

\* the description of an out-of-set change type was saved
C15_Witness ==
    /\ <<"pr_description_", "banana", ".md">> \in files
    /\ choice = <<" ", "1">>
    /\ report[Len(report)] = "saved"

\* the connection step of that name raised
ConnFailed(name) ==
    \E i \in 1..Len(connlog) : connlog[i].name = name /\ connlog[i].status = "raised"

\* C16: a failure of list_prompts leaves an empty prompt catalog and an
\* open connection, and the requested command or the shell runs; a failure
\* of initialize or of list_tools ends the connection with no workflow run.
C16_PromptsOptional ==
    /\ ConnFailed("list_prompts") =>
          /\ available_prompts = {}
          /\ pc # "done" => conn = "open" /\ subprocess = "running" /\ session = "set"
          /\ argv \in {"<none>", "interactive"} => mode = "interactive"
          /\ argv \in {"analyze", "ci-status", "slack-alert"} => wf = argv
          /\ exc = "McpError" => \E i \in 1..Len(log) : log[i].status = "raised"
    /\ (ConnFailed("initialize") \/ ConnFailed("list_tools")) =>
          /\ wf = "none"
          /\ mode = "command"
          /\ log = <<>>
          /\ exc = "McpError"
          /\ pc \in {"unwind", "done"}
          /\ pc = "done" => conn = "closed" /\ report = <<"error_connecting">>

\* the CI workflow is running on a connection whose list_prompts failed
C16_Witness ==
    /\ ConnFailed("list_prompts")
    /\ wf = "ci-status"
    /\ pc = "ci_ai"
    /\ conn = "open"

\* the remote calls of the PR analysis, in the order of the claim
AnalysisOrder == <<"analyze_file_changes", "summarize", "classify", "suggest_template",
                   "fill", "send_slack_notification">>
AnalysisKinds == <<"tool", "ai", "ai", "tool", "ai", "tool">>

\* the current PR analysis has shown its disposition menu
ReachedDisposition == wf = "analyze" /\ "menu" \in Elems(report)

\* C17: the remote calls of a PR analysis are a prefix of: diff tool call,
\* summary AI call, classification AI call, template tool call, fill AI
\* call; a run that reached the menu has made exactly these five, each
\* returned, three of them AI calls and two tool calls; the template tool
\* is called only after the classification call returned.
C17_AnalysisOrder ==
    /\ wf = "analyze" =>
          /\ Len(log) <= 6
          /\ \A i \in 1..Len(log) :
                /\ log[i].name = AnalysisOrder[i]
                /\ log[i].kind = AnalysisKinds[i]
                /\ \A j \in 1..(i - 1) : log[j].status = "returned"
    /\ ReachedDisposition =>
          /\ Len(log) >= 5
          /\ \A i \in 1..5 : log[i].status = "returned"
          /\ Cardinality({i \in 1..5 : log[i].kind = "ai"}) = 3
          /\ Cardinality({i \in 1..5 : log[i].kind = "tool"}) = 2
    /\ pc = "menu_input" => ReachedDisposition /\ Len(log) = 5
    /\ \A i \in CallsOf("suggest_template") :
          \E j \in 1..(i - 1) : log[j].name = "classify" /\ log[j].status = "returned"

\* a PR analysis is at its disposition menu
C17_Witness ==
    /\ pc = "menu_input"
    /\ ReachedDisposition
    /\ log[5].name = "fill"
    /\ log[5].remote = "ok"

\* C18: the CI workflow calls the recent-events tool and then the
\* workflow-status tool, each with its fixed arguments, and then, both
\* having returned, the AI wrapper once, on one instruction that holds both
\* results as they were returned; when a tool call fails no AI call is made
\* and the workflow reports the failure and returns.
C18_CiStatusOrder ==
    wf = "ci-status" =>
        /\ Len(log) <= 3
        /\ \A i \in 1..Len(log) :
              /\ log[i].name = <<"get_recent_actions_events", "get_workflow_status", "ci">>[i]
              /\ \A j \in 1..(i - 1) : log[j].status = "returned"
        /\ Len(log) >= 1 =>
              log[1].kind = "tool" /\ log[1].a = <<"limit", "=", "10">> /\ log[1].b = <<>>
        /\ Len(log) >= 2 =>
              log[2].kind = "tool" /\ log[2].a = <<>> /\ log[2].b = <<>>
        /\ Len(log) = 3 =>
              /\ log[3].kind = "ai"
              /\ log[3].sent = <<"<ci_events>">> \o log[1].ret \o <<"<ci_workflows>">>
                                   \o log[2].ret \o <<"<ci_provide>">>
        /\ (\E i \in 1..Len(log) : log[i].status = "raised") =>
              /\ Calls("ai") = {}
              /\ report[Len(report)] = "error_analyzing_ci_status"
        /\ exc = "none"
        /\ pc \in {"ci_start", "ci_events", "ci_workflows", "ci_ai", "shell_sep",
                    "scope_exit", "done"}
        /\ (pc \in {"shell_sep", "scope_exit", "done"} /\ Len(log) < 3) =>
              report[Len(report)] = "error_analyzing_ci_status"

\* the CI analysis returned on two different non-empty tool results
C18_Witness ==
    /\ wf = "ci-status"
    /\ pc \in {"shell_sep", "scope_exit"}
    /\ Len(log) = 3
    /\ log[3].status = "returned"
    /\ log[1].ret = <<"passing">>
    /\ log[2].ret = ErrorJson

\* C19: with the notification tool in the catalog, the alert workflow
\* calls the workflow-status tool, then the AI wrapper on that status, then
\* the notification tool with the text the AI wrapper returned, each at
\* most once and each after the one before returned; when the status call
\* fails neither of the other two is made.
C19_AlertOrder ==
    (wf = "slack-alert" /\ "send_slack_notification" \in available_tools) =>
        /\ Len(log) <= 3
        /\ \A i \in 1..Len(log) :
              /\ log[i].name = <<"get_workflow_status", "alert", "send_slack_notification">>[i]
              /\ log[i].kind = <<"tool", "ai", "tool">>[i]
              /\ \A j \in 1..(i - 1) : log[j].status = "returned"
        /\ Len(log) >= 2 =>
              log[2].sent = <<"<alert_status>">> \o log[1].ret \o <<"<alert_format>">>
        /\ Len(log) = 3 => log[3].a = log[2].ret
        /\ (Len(log) >= 1 /\ log[1].status = "raised") =>
              /\ Len(log) = 1
              /\ exc = "none"
              /\ report[Len(report)] = "error_sending_slack_alert"

\* the alert was sent with the text of the AI wrapper
C19_Witness ==
    /\ wf = "slack-alert"
    /\ pc \in {"shell_sep", "scope_exit"}
    /\ Len(log) = 3
    /\ log[1].ret = <<"passing">>
    /\ log[2].remote = "ok"
    /\ log[3].a = log[2].resp
    /\ log[3].status = "returned"

\* the handshake and the tool enumeration have returned
HandshakeDone ==
    /\ Len(connlog) = 3
    /\ connlog[1] = [name |-> "initialize", status |-> "returned"]
    /\ connlog[2] = [name |-> "list_tools", status |-> "returned"]
    /\ connlog[3].name = "list_prompts"
    /\ connlog[3].status # "inflight"

\* C20: every tool call is forwarded while the connection scope is open,
\* after the handshake and the catalog population and before the session
\* and the subprocess are torn down: a call is issued only on an open
\* session, none is in flight once the session is closed.
C20_CallsInsideScope ==
    /\ [](/\ log # <<>> => HandshakeDone
          /\ \A i \in 1..Len(log) :
                log[i].status = "inflight" =>
                    conn = "open" /\ subprocess = "running" /\ session = "set"
          /\ pc \notin {"main", "initialize", "list_tools", "list_prompts", "unwind", "done"}
                => HandshakeDone /\ conn = "open")
    /\ [][Len(log') > Len(log) =>
            /\ conn = "open" /\ conn' = "open"
            /\ subprocess = "running" /\ subprocess' = "running"
            /\ log'[Len(log')].name \in available_tools \/ log'[Len(log')].kind = "ai"]_vars

\* a tool call is in flight in a later command of the interactive shell
C20_Witness ==
    /\ mode = "interactive"
    /\ pc = "alert_send"
    /\ log[3].kind = "tool"
    /\ log[3].status = "inflight"
    /\ conn = "open"

\* the AI call of the current alert workflow failed
AlertAiFailed ==
    /\ wf = "slack-alert"
    /\ Len(log) >= 2
    /\ log[2].name = "alert"
    /\ log[2].remote = "failed"

\* C21: when the AI call of the alert workflow fails, the workflow goes
\* on: the notification tool is called exactly once, and the message it is
\* given is the error string, the marker followed by the failure's message.
C21_AlertSendsErrorString ==
    AlertAiFailed =>
        /\ Cardinality(CallsOf("send_slack_notification")) = 1
        /\ Len(log) = 3
        /\ log[3].name = "send_slack_notification"
        /\ log[3].kind = "tool"
        /\ log[3].a = <<"Error", " ", "calling", " ", "Gemini", " ", "API:", " ">>
                          \o log[2].resp
        /\ log[3].b = <<>>
        /\ exc = "none"
        /\ pc \in {"alert_send", "shell_sep", "scope_exit", "done"}
        /\ (pc # "alert_send" /\ log[3].status = "returned") =>
              report[Len(report)] = "slack_message"

\* the error string of a failed AI call was posted and the workflow returned
C21_Witness ==
    /\ AlertAiFailed
    /\ Len(log) = 3
    /\ log[2].resp = <<"boom">>
    /\ log[3].status = "returned"
    /\ pc \in {"shell_sep", "scope_exit"}

====
